---------------------------- MODULE Spec2Model ----------------------------
(***************************************************************************)
(* Model of Sources/CPython/include/CPython.h: the inline functions that   *)
(* expose CPython's module-definition initializer and its type-testing     *)
(* macros.  Every function body is one forwarding expression, so the model *)
(* holds two layers:                                                        *)
(*   - the part of the CPython object model the macros of <Python.h> read  *)
(*     (type objects, tp_flags, tp_base, the MRO, object headers), and     *)
(*   - the functions of CPython.h themselves, each translated as the macro *)
(*     call followed by the C conversion of its int result to bool.        *)
(***************************************************************************)
EXTENDS Integers, Sequences, FiniteSets, TLC

(***************************************************************************)
(* Bounds of the model.                                                     *)
(***************************************************************************)
MaxRefcnt == 2
NumThreads == 2

(***************************************************************************)
(* Constants of <Python.h>: the tp_flags bit positions of object.h.         *)
(***************************************************************************)
BASETYPE_BIT == 10
LONG_SUBCLASS_BIT == 24
LIST_SUBCLASS_BIT == 25
UNICODE_SUBCLASS_BIT == 28
BASE_EXC_SUBCLASS_BIT == 30

\* An unsigned long of flags is held as the set of its one-bits: & is the
\* intersection, | the union, and 1UL << k is {k}.
Py_TPFLAGS_BASETYPE == {BASETYPE_BIT}
Py_TPFLAGS_LONG_SUBCLASS == {LONG_SUBCLASS_BIT}
Py_TPFLAGS_LIST_SUBCLASS == {LIST_SUBCLASS_BIT}
Py_TPFLAGS_UNICODE_SUBCLASS == {UNICODE_SUBCLASS_BIT}
Py_TPFLAGS_BASE_EXC_SUBCLASS == {BASE_EXC_SUBCLASS_BIT}

BitAnd(x, y) == x \cap y

BitOr(x, y) == x \cup y

RECURSIVE Pow2(_)
Pow2(k) == IF k = 0 THEN 1 ELSE 2 * Pow2(k - 1)

\* The number a set of one-bits stands for.
RECURSIVE IntValue(_)
IntValue(bits) ==
    IF bits = {} THEN 0
    ELSE LET k == CHOOSE b \in bits : TRUE IN Pow2(k) + IntValue(bits \ {k})

\* The fast-subclass bits a type takes over from its tp_base when it is readied.
SubclassFlags ==
    BitOr(BitOr(Py_TPFLAGS_LONG_SUBCLASS, Py_TPFLAGS_LIST_SUBCLASS),
          BitOr(Py_TPFLAGS_UNICODE_SUBCLASS, Py_TPFLAGS_BASE_EXC_SUBCLASS))

(***************************************************************************)
(* The static types of the runtime that the macros name or that the claims *)
(* speak about.  StaticBase is tp_base, StaticFlags the flags written in   *)
(* the type's static definition (before inheritance).  bool is the one     *)
(* type here that is not an acceptable base type.  LayoutTypes are the     *)
(* types whose instance struct differs from their base's.                  *)
(***************************************************************************)
StaticNames == {"object", "int", "bool", "float", "str", "list", "BaseException", "Exception"}

StaticBase(n) ==
    CASE n = "object" -> "object"
      [] n = "bool" -> "int"
      [] n = "Exception" -> "BaseException"
      [] OTHER -> "object"

StaticFlags(n) ==
    CASE n = "int" -> BitOr(Py_TPFLAGS_BASETYPE, Py_TPFLAGS_LONG_SUBCLASS)
      [] n = "bool" -> {}
      [] n = "list" -> BitOr(Py_TPFLAGS_BASETYPE, Py_TPFLAGS_LIST_SUBCLASS)
      [] n = "str" -> BitOr(Py_TPFLAGS_BASETYPE, Py_TPFLAGS_UNICODE_SUBCLASS)
      [] n = "BaseException" -> BitOr(Py_TPFLAGS_BASETYPE, Py_TPFLAGS_BASE_EXC_SUBCLASS)
      [] OTHER -> Py_TPFLAGS_BASETYPE

LayoutTypes == {"object", "int", "float", "str", "list", "BaseException"}

\* The names of a static type and of all its bases (the members of its tp_mro).
RECURSIVE StaticMro(_)
StaticMro(n) == IF n = "object" THEN {"object"} ELSE {n} \cup StaticMro(StaticBase(n))

\* tp_flags of a static type after PyType_Ready: inherit_special adds the
\* fast-subclass bits of tp_base.
RECURSIVE ReadyFlags(_)
ReadyFlags(n) ==
    IF n = "object" THEN StaticFlags(n)
    ELSE BitOr(StaticFlags(n), BitAnd(ReadyFlags(StaticBase(n)), SubclassFlags))

\* A PyTypeObject, as far as the macros read it.
StaticType(n) ==
    [tp_name |-> n, tp_bases |-> IF n = "object" THEN << >> ELSE <<StaticBase(n)>>,
     tp_base |-> StaticBase(n), tp_flags |-> ReadyFlags(n), tp_mro |-> StaticMro(n)]

PyBool_Type == StaticType("bool")
PyLong_Type == StaticType("int")
PyFloat_Type == StaticType("float")

(***************************************************************************)
(* Classes made at run time by type_new from one or two static bases.      *)
(***************************************************************************)
\* solid_base: the nearest type in the base chain that extends the layout.
RECURSIVE solid_base(_)
solid_base(n) == IF n \in LayoutTypes THEN n ELSE solid_base(StaticBase(n))

\* PyType_IsSubtype on static types.
StaticIsSubtype(a, b) == b \in StaticMro(a)

\* best_base: the base whose solid base is a subtype of every other base's
\* solid base; "" when the layouts conflict.
best_base(bases) ==
    IF Len(bases) = 1 THEN bases[1]
    ELSE LET w1 == solid_base(bases[1])
             w2 == solid_base(bases[2])
         IN  IF StaticIsSubtype(w1, w2) THEN bases[1]
             ELSE IF StaticIsSubtype(w2, w1) THEN bases[2]
             ELSE ""

\* type_new accepts the bases: each is an acceptable base type, the MRO can be
\* linearised (no base precedes one of its own subclasses, no duplicate), and
\* the instance layouts do not conflict.
type_new_ok(bases) ==
    /\ \A i \in 1..Len(bases) : BitAnd(ReadyFlags(bases[i]), Py_TPFLAGS_BASETYPE) # {}
    /\ Len(bases) = 2 => bases[1] \notin StaticMro(bases[2])
    /\ best_base(bases) # ""

\* The type object type_new builds.
type_new(bases) ==
    [tp_name |-> "U", tp_bases |-> bases, tp_base |-> best_base(bases),
     tp_flags |-> BitOr(Py_TPFLAGS_BASETYPE,
                        BitAnd(ReadyFlags(best_base(bases)), SubclassFlags)),
     tp_mro |-> {"U"} \cup UNION {StaticMro(bases[i]) : i \in 1..Len(bases)}]

BaseLists ==
    {<<a>> : a \in StaticNames} \cup {<<a, b>> : a \in StaticNames, b \in StaticNames}

StaticTypes == {StaticType(n) : n \in StaticNames}
HeapTypes == {type_new(bs) : bs \in {b \in BaseLists : type_new_ok(b)}}
Types == StaticTypes \cup HeapTypes

(***************************************************************************)
(* State.                                                                   *)
(*   heap        the objects of the runtime behind the handles the caller  *)
(*               holds: handle -> [ob_refcnt, ob_type]                     *)
(*   holders     the threads that hold the interpreter lock                *)
(*   curexc      TRUE when the runtime's error indicator is set            *)
(*   maskResult  how the <Python.h> the header is compiled against returns *)
(*               a flag test: FALSE as (flags & f) != 0, TRUE as the bare  *)
(*               flags & f (any non-zero int means true in the C API)      *)
(*   lastCall    the latest call into CPython.h and how it ended           *)
(*   heads       the values _get_PyModuleDef_HEAD_INIT has returned        *)
(*   probe       history: one earlier predicate call, kept for comparison  *)
(***************************************************************************)
VARIABLES heap, holders, curexc, maskResult, lastCall, heads, probe

vars == <<heap, holders, curexc, maskResult, lastCall, heads, probe>>

\* The runtime state no function of CPython.h may touch.
runtime == <<heap, holders, curexc, maskResult>>

NULL == 0
Handles == {1, 2}
Threads == 1..NumThreads

Predicates ==
    {"_PyExceptionInstance_Check", "_PyBool_Check", "_PyLong_Check",
     "_PyFloat_Check", "_PyUnicode_Check", "_PyList_Check"}

NoCall == [fn |-> "none", h |-> NULL, macro |-> 0, ret |-> FALSE, fault |-> FALSE]
NoProbe == [fn |-> "none", h |-> NULL, ret |-> FALSE]

(***************************************************************************)
(* The macros of <Python.h> the header forwards to.  Each takes the handle *)
(* and reads the object behind it, so each is defined for non-null handles *)
(* only.  The value is the C int the macro expression evaluates to.        *)
(***************************************************************************)
Py_TYPE(ob) == heap[ob].ob_type

Py_IS_TYPE(ob, type) == IF Py_TYPE(ob) = type THEN 1 ELSE 0

PyType_IsSubtype(a, b) == IF b.tp_name \in a.tp_mro THEN 1 ELSE 0

PyType_HasFeature(type, feature) ==
    IF maskResult THEN IntValue(BitAnd(type.tp_flags, feature))
    ELSE IF IntValue(BitAnd(type.tp_flags, feature)) # 0 THEN 1 ELSE 0

PyType_FastSubclass(type, flag) == PyType_HasFeature(type, flag)

PyObject_TypeCheck(ob, type) ==
    IF Py_IS_TYPE(ob, type) # 0 \/ PyType_IsSubtype(Py_TYPE(ob), type) # 0 THEN 1 ELSE 0

PyExceptionInstance_Check(x) ==
    PyType_FastSubclass(Py_TYPE(x), Py_TPFLAGS_BASE_EXC_SUBCLASS)

PyBool_Check(x) == Py_IS_TYPE(x, PyBool_Type)

PyLong_Check(op) == PyType_FastSubclass(Py_TYPE(op), Py_TPFLAGS_LONG_SUBCLASS)

PyFloat_Check(op) == PyObject_TypeCheck(op, PyFloat_Type)

PyUnicode_Check(op) == PyType_FastSubclass(Py_TYPE(op), Py_TPFLAGS_UNICODE_SUBCLASS)

PyList_Check(op) == PyType_FastSubclass(Py_TYPE(op), Py_TPFLAGS_LIST_SUBCLASS)

\* PyModuleDef_HEAD_INIT: { PyObject_HEAD_INIT(NULL), NULL, 0, NULL }.
PyModuleDef_HEAD_INIT ==
    [ob_refcnt |-> 1, ob_type |-> NULL, m_init |-> NULL, m_index |-> 0, m_copy |-> NULL]

\* The values the state takes.
TypeOK ==
    /\ heap \in [Handles -> [ob_refcnt : 0..MaxRefcnt, ob_type : Types]]
    /\ holders \subseteq Threads
    /\ curexc \in BOOLEAN
    /\ maskResult \in BOOLEAN
    /\ lastCall.fn \in Predicates \cup {"none", "_get_PyModuleDef_HEAD_INIT"}
    /\ lastCall.h \in Handles \cup {NULL}
    /\ lastCall.ret \in BOOLEAN /\ lastCall.fault \in BOOLEAN
    /\ heads \subseteq {PyModuleDef_HEAD_INIT}
    /\ probe.fn \in Predicates \cup {"none"} /\ probe.ret \in BOOLEAN

(***************************************************************************)
(* CPython.h.                                                               *)
(***************************************************************************)
\* Variant: bool as an 8-bit integer type, which keeps the low byte only.
C_bool_Byte(n) == (n % 256) # 0

\* <stdbool.h>: bool is _Bool, and an int converts to it as (n != 0).
C_bool(n) == n # 0

\* Variants: a function forwarding to another macro than the one it is named for.
ExceptionInstance_AsLong(object) == C_bool(PyLong_Check(object))

Long_AsCheckExact(object) == C_bool(Py_IS_TYPE(object, PyLong_Type))

Float_AsLong(object) == C_bool(PyLong_Check(object))

List_AsLong(object) == C_bool(PyLong_Check(object))

\* The int each function's return expression evaluates to.
MacroOf(fn, object) ==
    CASE fn = "_PyExceptionInstance_Check" -> PyExceptionInstance_Check(object)
      [] fn = "_PyBool_Check" -> PyBool_Check(object)
      [] fn = "_PyLong_Check" -> PyLong_Check(object)
      [] fn = "_PyFloat_Check" -> PyFloat_Check(object)
      [] fn = "_PyUnicode_Check" -> PyUnicode_Check(object)
      [] fn = "_PyList_Check" -> PyList_Check(object)

\* Variant: the initializer takes m_index from a running count of the calls.
HeadInitCounting == [PyModuleDef_HEAD_INIT EXCEPT !.m_index = Cardinality(heads)]

_get_PyModuleDef_HEAD_INIT == PyModuleDef_HEAD_INIT

_PyExceptionInstance_Check(object) == C_bool(PyExceptionInstance_Check(object))

_PyBool_Check(object) == C_bool(PyBool_Check(object))

_PyLong_Check(object) == C_bool(PyLong_Check(object))

_PyFloat_Check(object) == C_bool(PyFloat_Check(object))

_PyUnicode_Check(object) == C_bool(PyUnicode_Check(object))

_PyList_Check(object) == C_bool(PyList_Check(object))

\* The function named fn, applied to a non-null handle.
Wrapper(fn, object) ==
    CASE fn = "_PyExceptionInstance_Check" -> _PyExceptionInstance_Check(object)
      [] fn = "_PyBool_Check" -> _PyBool_Check(object)
      [] fn = "_PyLong_Check" -> _PyLong_Check(object)
      [] fn = "_PyFloat_Check" -> _PyFloat_Check(object)
      [] fn = "_PyUnicode_Check" -> _PyUnicode_Check(object)
      [] fn = "_PyList_Check" -> _PyList_Check(object)

(***************************************************************************)
(* A call of a predicate by thread t, which holds the interpreter lock.    *)
(* On a non-null handle the call returns the converted macro value and     *)
(* writes nothing.  On the null handle the macro reads through a null      *)
(* pointer, which is undefined behaviour: the read faults, or it yields    *)
(* some int which the function then converts and returns.                  *)
(***************************************************************************)
\* Variant: each function keeps its result in a static and answers from it
\* when it is called twice in a row, whatever the object.
PredicateCallCached(t, fn, object) ==
    /\ ~lastCall.fault
    /\ t \in holders
    /\ object # NULL
    /\ lastCall' = [fn |-> fn, h |-> object, macro |-> MacroOf(fn, object),
                    ret |-> IF lastCall.fn = fn THEN lastCall.ret
                            ELSE Wrapper(fn, object),
                    fault |-> FALSE]
    /\ UNCHANGED <<heap, holders, curexc, maskResult, heads>>

\* Variant: the function consumes the caller's reference (Py_DECREF).
PredicateCallStealing(t, fn, object) ==
    /\ ~lastCall.fault
    /\ t \in holders
    /\ object # NULL
    /\ lastCall' = [fn |-> fn, h |-> object, macro |-> MacroOf(fn, object),
                    ret |-> Wrapper(fn, object), fault |-> FALSE]
    /\ heap' = [heap EXCEPT ![object].ob_refcnt = @ - 1]
    /\ UNCHANGED <<holders, curexc, maskResult, heads>>

\* Variant: the function gives up the interpreter lock (PyEval_SaveThread).
PredicateCallUnlocking(t, fn, object) ==
    /\ ~lastCall.fault
    /\ t \in holders
    /\ object # NULL
    /\ lastCall' = [fn |-> fn, h |-> object, macro |-> MacroOf(fn, object),
                    ret |-> Wrapper(fn, object), fault |-> FALSE]
    /\ holders' = holders \ {t}
    /\ UNCHANGED <<heap, curexc, maskResult, heads>>

PredicateCall(t, fn, object) ==
    /\ ~lastCall.fault
    /\ t \in holders
    /\ IF object # NULL
         THEN lastCall' = [fn |-> fn, h |-> object, macro |-> MacroOf(fn, object),
                           ret |-> Wrapper(fn, object), fault |-> FALSE]
         ELSE \/ lastCall' = [fn |-> fn, h |-> object, macro |-> 0,
                              ret |-> FALSE, fault |-> TRUE]
              \/ \E garbage \in {0, 1} :
                    lastCall' = [fn |-> fn, h |-> object, macro |-> garbage,
                                 ret |-> C_bool(garbage), fault |-> FALSE]
    /\ UNCHANGED <<heap, holders, curexc, maskResult, heads>>

\* A call of _get_PyModuleDef_HEAD_INIT by any thread.
HeadInitCall(t) ==
    /\ ~lastCall.fault
    /\ lastCall' = [fn |-> "_get_PyModuleDef_HEAD_INIT", h |-> NULL, macro |-> 0,
                    ret |-> FALSE, fault |-> FALSE]
    /\ heads' = heads \cup {_get_PyModuleDef_HEAD_INIT}
    /\ UNCHANGED <<heap, holders, curexc, maskResult>>

(***************************************************************************)
(* What the caller does through <Python.h> between calls of the header.    *)
(***************************************************************************)
PyGILState_Ensure(t) ==
    /\ ~lastCall.fault
    /\ holders = {}
    /\ holders' = {t}
    /\ UNCHANGED <<heap, curexc, maskResult, lastCall, heads, probe>>

PyGILState_Release(t) ==
    /\ ~lastCall.fault
    /\ t \in holders
    /\ holders' = holders \ {t}
    /\ UNCHANGED <<heap, curexc, maskResult, lastCall, heads, probe>>

Py_INCREF(t, op) ==
    /\ ~lastCall.fault
    /\ t \in holders
    /\ heap[op].ob_refcnt < MaxRefcnt
    /\ heap' = [heap EXCEPT ![op].ob_refcnt = @ + 1]
    /\ UNCHANGED <<holders, curexc, maskResult, lastCall, heads, probe>>

\* The caller keeps a reference of its own to every handle it passes on.
Py_DECREF(t, op) ==
    /\ ~lastCall.fault
    /\ t \in holders
    /\ heap[op].ob_refcnt > 1
    /\ heap' = [heap EXCEPT ![op].ob_refcnt = @ - 1]
    /\ UNCHANGED <<holders, curexc, maskResult, lastCall, heads, probe>>

PyErr_SetNone(t) ==
    /\ ~lastCall.fault
    /\ t \in holders
    /\ ~curexc
    /\ curexc' = TRUE
    /\ UNCHANGED <<heap, holders, maskResult, lastCall, heads, probe>>

PyErr_Clear(t) ==
    /\ ~lastCall.fault
    /\ t \in holders
    /\ curexc
    /\ curexc' = FALSE
    /\ UNCHANGED <<heap, holders, maskResult, lastCall, heads, probe>>

(***************************************************************************)
(* Spec: the header's functions among the caller's own runtime calls.      *)
(* Handle 1 is an object of any static type, handle 2 a boolean or an      *)
(* exception instance; flag tests return 0 or 1 as in released CPython.    *)
(***************************************************************************)
Objects(T1, T2) ==
    {f \in [Handles -> {[ob_refcnt |-> 1, ob_type |-> ty] : ty \in T1 \cup T2}] :
        f[1].ob_type \in T1 /\ f[2].ob_type \in T2}

Init ==
    /\ heap \in Objects(StaticTypes, {PyBool_Type, StaticType("Exception")})
    /\ holders = {}
    /\ curexc = FALSE
    /\ maskResult = FALSE
    /\ lastCall = NoCall
    /\ heads = {}
    /\ probe = NoProbe

Call ==
    \E t \in Threads, fn \in Predicates, object \in Handles \cup {NULL} :
        PredicateCall(t, fn, object) /\ UNCHANGED probe

HeadInit == \E t \in Threads : HeadInitCall(t) /\ UNCHANGED probe

Ensure == \E t \in Threads : PyGILState_Ensure(t)

Release == \E t \in Threads : PyGILState_Release(t)

IncRef == \E t \in Threads, op \in Handles : Py_INCREF(t, op)

DecRef == \E t \in Threads, op \in Handles : Py_DECREF(t, op)

SetErr == \E t \in Threads : PyErr_SetNone(t)

ClearErr == \E t \in Threads : PyErr_Clear(t)

Next == Call \/ HeadInit \/ Ensure \/ Release \/ IncRef \/ DecRef \/ SetErr \/ ClearErr

Spec == Init /\ [][Next]_vars

(***************************************************************************)
(* SpecTypes: the predicates as functions of the object's type.  Thread 1  *)
(* holds the lock throughout; the objects range over every static type and *)
(* every class type_new accepts, under both forms of the flag test.        *)
(***************************************************************************)
InitTypes ==
    /\ heap \in Objects(Types, Types)
    /\ holders = {1}
    /\ curexc = FALSE
    /\ maskResult \in BOOLEAN
    /\ lastCall = NoCall
    /\ heads = {}
    /\ probe = NoProbe

CallTypes ==
    \E fn \in Predicates, object \in Handles :
        PredicateCall(1, fn, object) /\ UNCHANGED probe

NextTypes == CallTypes

SpecTypes == InitTypes /\ [][NextTypes]_vars

(***************************************************************************)
(* SpecIdem: sequences of predicate calls by the lock holder, with one     *)
(* returned call remembered in probe for comparison with the later ones.   *)
(***************************************************************************)
InitIdem ==
    /\ heap \in Objects(Types, {PyBool_Type, StaticType("Exception")})
    /\ holders = {1}
    /\ curexc = FALSE
    /\ maskResult \in BOOLEAN
    /\ lastCall = NoCall
    /\ heads = {}
    /\ probe = NoProbe

CallIdem ==
    \E fn \in Predicates, object \in Handles \cup {NULL} :
        PredicateCall(1, fn, object) /\ UNCHANGED probe

CallRecord ==
    \E fn \in Predicates, object \in Handles \cup {NULL} :
        /\ PredicateCall(1, fn, object)
        /\ probe = NoProbe
        /\ ~lastCall'.fault
        /\ probe' = [fn |-> fn, h |-> object, ret |-> lastCall'.ret]

NextIdem == CallIdem \/ CallRecord

SpecIdem == InitIdem /\ [][NextIdem]_vars

(***************************************************************************)
(* Properties.                                                              *)
(***************************************************************************)
\* The latest call was a predicate call on a handle that refers to an object,
\* and it returned.
Returned == lastCall.fn \in Predicates /\ lastCall.h \in Handles /\ ~lastCall.fault

CalledType == heap[lastCall.h].ob_type

IsBoolean == CalledType = PyBool_Type

IsInteger == "int" \in CalledType.tp_mro

IsException == "BaseException" \in CalledType.tp_mro

\* C1 as stated: on a handle that wraps a boolean, _PyBool_Check returns true
\* and _PyLong_Check, _PyFloat_Check, _PyUnicode_Check and _PyList_Check each
\* return false.
C1_BoolOnly ==
    (Returned /\ IsBoolean) =>
        /\ lastCall.fn = "_PyBool_Check" => lastCall.ret
        /\ lastCall.fn \in {"_PyLong_Check", "_PyFloat_Check", "_PyUnicode_Check",
                            "_PyList_Check"} => ~lastCall.ret

\* C1 amended: on a handle that wraps a boolean, _PyBool_Check and _PyLong_Check
\* return true, and _PyFloat_Check, _PyUnicode_Check and _PyList_Check return
\* false.
C1_BoolIsAlsoLong ==
    (Returned /\ IsBoolean) =>
        /\ lastCall.fn \in {"_PyBool_Check", "_PyLong_Check"} => lastCall.ret
        /\ lastCall.fn \in {"_PyFloat_Check", "_PyUnicode_Check", "_PyList_Check"}
              => ~lastCall.ret

C1_Witness == Returned /\ IsBoolean /\ lastCall.fn = "_PyLong_Check" /\ lastCall.ret

\* C2 as stated: every predicate call, the one on the null handle included,
\* returns a boolean and never ends in a failure.
C2_AlwaysReturns ==
    lastCall.fn \in Predicates => (~lastCall.fault /\ lastCall.ret \in BOOLEAN)

\* C3: _PyExceptionInstance_Check returns true on every object whose type
\* derives from BaseException and false on every integer.
C3_ExceptionInstance ==
    (Returned /\ lastCall.fn = "_PyExceptionInstance_Check") =>
        /\ IsException => lastCall.ret
        /\ IsInteger => ~lastCall.ret

C3_Witness ==
    /\ Returned /\ lastCall.fn = "_PyExceptionInstance_Check"
    /\ IsException /\ CalledType.tp_name = "U" /\ lastCall.ret
    /\ \E h \in Handles : "int" \in heap[h].ob_type.tp_mro

\* C4: on an integer that is not a boolean, _PyLong_Check returns true and
\* _PyBool_Check, _PyFloat_Check, _PyUnicode_Check and _PyList_Check return
\* false, which is what their macros evaluate to.
C4_PlainInteger ==
    (Returned /\ IsInteger /\ ~IsBoolean) =>
        /\ lastCall.fn = "_PyLong_Check" => lastCall.ret
        /\ lastCall.fn \in {"_PyBool_Check", "_PyFloat_Check", "_PyUnicode_Check",
                            "_PyList_Check"}
              => (~lastCall.ret /\ MacroOf(lastCall.fn, lastCall.h) = 0)

C4_Witness ==
    /\ Returned /\ IsInteger /\ ~IsBoolean /\ CalledType.tp_name = "U"
    /\ lastCall.fn = "_PyLong_Check" /\ lastCall.ret

\* C5: every call of _get_PyModuleDef_HEAD_INIT returns the same value, field
\* by field, and the call leaves the runtime's state as it was.
C5_HeadInitPure ==
    /\ [](\A a \in heads, b \in heads :
            /\ a.ob_refcnt = b.ob_refcnt /\ a.ob_type = b.ob_type
            /\ a.m_init = b.m_init /\ a.m_index = b.m_index /\ a.m_copy = b.m_copy)
    /\ [][HeadInit => UNCHANGED runtime]_vars

C5_Witness ==
    /\ lastCall.fn = "_get_PyModuleDef_HEAD_INIT" /\ heads # {}
    /\ curexc /\ \E h \in Handles : heap[h].ob_refcnt > 1

C7_NoRefcountChange ==
    [][Call => \A h \in Handles :
                  /\ heap'[h].ob_refcnt = heap[h].ob_refcnt
                  /\ heap'[h].ob_type = heap[h].ob_type]_vars

C7_Witness ==
    /\ Returned /\ heap[lastCall.h].ob_refcnt > 1
    /\ \E h \in Handles : h # lastCall.h /\ heap[h].ob_refcnt = 1

\* C8: no call into the header changes who holds the interpreter lock, and
\* the lock is never held by two threads.
C8_LockUntouched ==
    /\ [](Cardinality(holders) <= 1)
    /\ [][(Call \/ HeadInit) => holders' = holders]_vars

C8_Witness == Returned /\ holders = {2} /\ heads # {}

\* C9: on a non-null handle each function returns true exactly when its macro
\* evaluates to a non-zero int, also when that int is a flag mask wider than
\* eight bits.
C9_SameAsMacro ==
    Returned => (lastCall.ret <=> MacroOf(lastCall.fn, lastCall.h) # 0)

C9_Witness == Returned /\ lastCall.macro > 255 /\ lastCall.ret

\* C10: on a non-null handle _PyBool_Check implies _PyLong_Check, and at most
\* one of _PyLong_Check, _PyFloat_Check, _PyUnicode_Check, _PyList_Check holds.
C10_BoolImpliesLong ==
    \A h \in Handles :
        /\ _PyBool_Check(h) => _PyLong_Check(h)
        /\ Cardinality({fn \in {"_PyLong_Check", "_PyFloat_Check", "_PyUnicode_Check",
                                "_PyList_Check"} : Wrapper(fn, h)}) <= 1

C10_Witness ==
    /\ Returned /\ lastCall.fn = "_PyBool_Check" /\ lastCall.ret
    /\ _PyLong_Check(lastCall.h) /\ ~_PyFloat_Check(lastCall.h)
==========================================================================
